---- MODULE Spec2Model ----
(***************************************************************************)
(* Model of main.py: a generational genetic algorithm that evolves a       *)
(* 30x30 tile map.                                                         *)
(*                                                                         *)
(* A grid is a Python list of row lists.  Rows live in a heap (row id ->   *)
(* row contents) and a grid is the function from y to the id of its row,   *)
(* so that two grids sharing row storage is a state the model can be in.   *)
(*                                                                         *)
(* The module random is one global generator: rng is its state, unknown at *)
(* the start of a run.  Every step that calls random reads rng, which      *)
(* fixes the outcome of each random call of the step, and advances it.     *)
(*                                                                         *)
(* One iteration of the run loop of main (for i in range(10)) is          *)
(* modelled; the iterations share no state but the generator.              *)
(***************************************************************************)
EXTENDS Integers, Sequences, FiniteSets

VARIABLES pc, rng, POPULATION_SIZE, heap, population, generation,
          fitness_scores, sorted_pop, new_population, parent1, parent2, child,
          final_fitness_scores, best_index,
          sorted_cells, new_cells   \* history: cells at selection / at append

vars == <<pc, rng, POPULATION_SIZE, heap, population, generation,
          fitness_scores, sorted_pop, new_population, parent1, parent2, child,
          final_fitness_scores, best_index, sorted_cells, new_cells>>

----------------------------------------------------------------------------
(* Configuration *)

MAP_WIDTH == 30
MAP_HEIGHT == 30

\* POPULATION_SIZE = 50 and GENERATIONS = 200 in the source, scaled down;
\* NumSeeds bounds the initial states of the generator.
MaxPopulation == 7
GENERATIONS == 2
NumSeeds == 8

PLAINS == 0
MOUNTAIN == 1
RIVER == 2
ROCK == 3

center == 15
radius == 8
num_clusters == 8
NumElites == 5
NumParents == 15

\* Population sizes a run can be configured with; 4 is below the elite count.
PopulationSizes == {4, MaxPopulation}

Rows == 0 .. (MAP_HEIGHT - 1)
Cols == 0 .. (MAP_WIDTH - 1)

Min(a, b) == IF a < b THEN a ELSE b

\* The next state of the generator.  State 5 is a fixed point: a run whose
\* draws repeat, so that its individuals are equal and their scores tie.
Advance(r) == (7 * r + 71) % 101

----------------------------------------------------------------------------
(* The heap of rows.  A grid is a function Rows -> row id. *)

Load(h, g) == [y \in Rows |-> h[g[y]]]

\* tile_map[y][x] = ... for the cells of grid g: the rows are written in place.
Store(h, g, m) ==
    [r \in DOMAIN h |->
        IF \E y \in Rows : g[y] = r
        THEN m[CHOOSE y \in Rows : g[y] = r]
        ELSE h[r]]

\* A new list of MAP_HEIGHT new row lists holding the rows of m.
Alloc(h, m) ==
    LET n == Len(h)
    IN  [heap |-> [r \in 1 .. (n + MAP_HEIGHT) |->
                      IF r <= n THEN h[r] ELSE m[r - n - 1]],
         grid |-> [y \in Rows |-> n + 1 + y]]

----------------------------------------------------------------------------
(* random.randint(0, 3) for cell (x, y) under draw s *)
RandomTile(s, y, x) == (x * (s + 1) + y * (2 * s + 3) + (x * y) \div 7 + s) % 4

IsEdge(y, x) == x = 0 \/ x = MAP_WIDTH - 1 \/ y = 0 \/ y = MAP_HEIGHT - 1

generate_random_map(s) ==
    [y \in Rows |-> [x \in Cols |->
        IF IsEdge(y, x) THEN MOUNTAIN ELSE RandomTile(s, y, x)]]

is_in_central_circle(x, y, c, r) ==
    (x - c) * (x - c) + (y - c) * (y - c) <= r * r

\* enforce_constraints without its two border loops
enforce_constraints_no_border(m) ==
    [y \in Rows |-> [x \in Cols |->
        IF is_in_central_circle(x, y, center, radius) THEN PLAINS ELSE m[y][x]]]

\* enforce_constraints without its circle loop
enforce_constraints_no_circle(m) ==
    [y \in Rows |-> [x \in Cols |->
        IF IsEdge(y, x) THEN MOUNTAIN ELSE m[y][x]]]

enforce_constraints(m) ==
    LET circle == [y \in Rows |-> [x \in Cols |->
                      IF is_in_central_circle(x, y, center, radius)
                      THEN PLAINS ELSE m[y][x]]]
    IN  [y \in Rows |-> [x \in Cols |->
            IF IsEdge(y, x) THEN MOUNTAIN ELSE circle[y][x]]]

\* int(15 + 3 * math.sin(2 * math.pi * x / MAP_WIDTH)) for x = 0 .. 29
RiverRowTable ==
    <<15, 15, 16, 16, 17, 17, 17, 17, 17, 17, 17, 17, 16, 16, 15,
      15, 14, 13, 13, 12, 12, 12, 12, 12, 12, 12, 12, 13, 13, 14>>

get_river_row(x) == RiverRowTable[x + 1]

\* place_river over the interior columns only
place_river_interior(m) ==
    [y \in Rows |-> [x \in Cols |->
        IF /\ 0 < x /\ x < MAP_WIDTH - 1
           /\ \E offset \in {-1, 0, 1} :
                  /\ y = get_river_row(x) + offset
                  /\ 0 < y /\ y < MAP_HEIGHT - 1
        THEN RIVER ELSE m[y][x]]]

\* place_river with offsets -2 .. 2
place_river_wide(m) ==
    [y \in Rows |-> [x \in Cols |->
        IF \E offset \in {-2, -1, 0, 1, 2} :
               /\ y = get_river_row(x) + offset
               /\ 0 < y /\ y < MAP_HEIGHT - 1
        THEN RIVER ELSE m[y][x]]]

place_river(m) ==
    [y \in Rows |-> [x \in Cols |->
        IF \E offset \in {-1, 0, 1} :
               /\ y = get_river_row(x) + offset
               /\ 0 < y /\ y < MAP_HEIGHT - 1
        THEN RIVER ELSE m[y][x]]]


----------------------------------------------------------------------------
(* place_rocks.  With the generator in state s, cluster i draws the seeds  *)
(* SeedCand(s, i, 0), SeedCand(s, i, 1), ... until one is not MOUNTAIN.    *)

\* randint(5, MAP_WIDTH - 5) and randint(5, MAP_HEIGHT - 5) have 21 outcomes
SeedSpanX == MAP_WIDTH - 9
SeedSpanY == MAP_HEIGHT - 9

SeedCand(s, i, n) ==
    [cx |-> 5 + ((3 * i + s + 5 * n) % SeedSpanX),
     cy |-> 5 + ((7 * i + 2 * s + 3 * n) % SeedSpanY)]

SeedTries == 0 .. (SeedSpanX - 1)

SeedAccepted(m, s, i, n) ==
    m[SeedCand(s, i, n).cy][SeedCand(s, i, n).cx] # MOUNTAIN

HasSeed(m, s, i) == \E n \in SeedTries : SeedAccepted(m, s, i, n)

Seed(m, s, i) ==
    SeedCand(s, i, CHOOSE n \in SeedTries :
                      /\ SeedAccepted(m, s, i, n)
                      /\ \A k \in SeedTries : k < n => ~SeedAccepted(m, s, i, k))

cluster_size(s, i) == 3 + ((i + s) % 3)

OffsetX(s, i, j) == ((i + j + s) % 3) - 1
OffsetY(s, i, j) == (((i + 2 * j + s) \div 2) % 3) - 1

\* The attempts j, j + 1, ... of cluster i around seed sd.
RECURSIVE PlaceCluster(_, _, _, _, _)
PlaceCluster(m, sd, s, i, j) ==
    IF j > cluster_size(s, i) THEN m
    ELSE LET nx == sd.cx + OffsetX(s, i, j)
             ny == sd.cy + OffsetY(s, i, j)
             \* m2 ranges over the one map the attempt leaves
         IN  CHOOSE r \in {PlaceCluster(m2, sd, s, i, j + 1) : m2 \in
                     {IF /\ 0 < nx /\ nx < MAP_WIDTH - 1
                         /\ 0 < ny /\ ny < MAP_HEIGHT - 1
                         /\ m[ny][nx] = PLAINS
                      THEN [m EXCEPT ![ny][nx] = ROCK]
                      ELSE m}} : TRUE

\* The clusters i, i + 1, ...; acc is the tile map and the seeds so far.
RECURSIVE PlaceClusters(_, _, _)
PlaceClusters(acc, s, i) ==
    IF i > num_clusters THEN acc
    ELSE CHOOSE r \in {PlaceClusters(acc2, s, i + 1) : acc2 \in
                {[tiles |-> PlaceCluster(acc.tiles, sd, s, i, 1),
                  seeds |-> Append(acc.seeds, sd)] :
                     sd \in {Seed(acc.tiles, s, i)}}} : TRUE

\* The tile map after place_rocks, with the seeds the call chose.
PlaceRocks(m, s) == PlaceClusters([tiles |-> m, seeds |-> <<>>], s, 1)

place_rocks(m, s) == PlaceRocks(m, s).tiles

\* The seed loops of place_rocks all end.
RocksTerminate(m, s) == \A i \in 1 .. num_clusters : HasSeed(m, s, i)

----------------------------------------------------------------------------
(* calculate_fitness *)

RECURSIVE SumTo(_, _)
SumTo(f, n) == IF n < 0 THEN 0 ELSE f[n] + SumTo(f, n - 1)

\* The sum of f[y][x] over all cells.
SumCells(f) ==
    SumTo([y \in Rows |-> SumTo(f[y], MAP_WIDTH - 1)], MAP_HEIGHT - 1)

Abs(n) == IF n < 0 THEN -n ELSE n

CentralTerm(m) ==
    SumCells([y \in Rows |-> [x \in Cols |->
        IF is_in_central_circle(x, y, center, radius)
        THEN (IF m[y][x] = PLAINS THEN 1 ELSE -1)
        ELSE 0]])

MountainTerm(m) ==
    SumCells([y \in Rows |-> [x \in Cols |->
        IF m[y][x] = MOUNTAIN
        THEN (IF is_in_central_circle(x, y, 15, 13) THEN -10 ELSE 5)
        ELSE 0]])

found_river_in_band(m, x) ==
    \E offset \in {-1, 0, 1} :
        LET yy == get_river_row(x) + offset
        IN  0 <= yy /\ yy < MAP_HEIGHT /\ m[yy][x] = RIVER

RiverTerm(m) ==
    SumTo([x \in Cols |-> IF found_river_in_band(m, x) THEN 50 ELSE -500],
          MAP_WIDTH - 1)

rock_count(m) ==
    SumCells([y \in Rows |-> [x \in Cols |->
        IF m[y][x] = ROCK THEN 1 ELSE 0]])

RockTerm(m) ==
    LET n == rock_count(m)
    IN  IF 20 <= n /\ n <= 40 THEN 50 ELSE -Abs(n - 22)

calculate_fitness(m) ==
    CentralTerm(m) + MountainTerm(m) + RiverTerm(m) + RockTerm(m)


----------------------------------------------------------------------------
(* crossover and mutate *)

\* crossover appending the parents' row lists themselves
crossover_shared(h, map1, map2) ==
    LET mid == MAP_HEIGHT \div 2
    IN  [heap |-> h,
         grid |-> [y \in Rows |-> IF y < mid THEN map1[y] ELSE map2[y]]]

\* crossover copying the rows of map1 but appending the row lists of map2
crossover_shared_lower(h, map1, map2) ==
    LET mid == MAP_HEIGHT \div 2
        a == Alloc(h, [y \in Rows |-> IF y < mid THEN h[map1[y]] ELSE h[map2[y]]])
    IN  [heap |-> a.heap,
         grid |-> [y \in Rows |-> IF y < mid THEN a.grid[y] ELSE map2[y]]]

\* crossover with y <= mid
crossover_late_split(h, map1, map2) ==
    LET mid == MAP_HEIGHT \div 2
    IN  Alloc(h, [y \in Rows |-> IF y <= mid THEN h[map1[y]] ELSE h[map2[y]]])

crossover(h, map1, map2) ==
    LET mid == MAP_HEIGHT \div 2
    IN  Alloc(h, [y \in Rows |-> IF y < mid THEN h[map1[y]] ELSE h[map2[y]]])

\* random.random() < MUTATION_RATE for cell (x, y): about 3% of the cells
MutationHit(s, y, x) == (7 * y + 3 * x + s) % 31 = 0
\* random.randint(0, 3) for a cell that mutates
MutationTile(s, y, x) == (x + 2 * y + s) % 4

Sweep(m, s) ==
    [y \in Rows |-> [x \in Cols |->
        IF MutationHit(s, y, x) THEN MutationTile(s, y, x) ELSE m[y][x]]]

\* mutate leaving the ROCK cells in place
ClearRocks_skipped(m) == m

ClearRocks(m) ==
    [yy \in Rows |-> [xx \in Cols |->
        IF m[yy][xx] = ROCK THEN PLAINS ELSE m[yy][xx]]]

\* The tile map of mutate just before its call of place_rocks.
BeforeRocks(m, s) == ClearRocks(place_river(enforce_constraints(Sweep(m, s))))

mutate(m, s) == place_rocks(BeforeRocks(m, s), s)

----------------------------------------------------------------------------
(* main *)

\* sorted(zip(fitness_scores, population), key=..., reverse=True) is stable:
\* equal scores keep the order of population.
Rank(scores, i) ==
    1 + Cardinality({j \in DOMAIN scores :
                        \/ scores[j] > scores[i]
                        \/ scores[j] = scores[i] /\ j < i})

SortedByScore(scores, pop) ==
    [k \in DOMAIN pop |-> pop[CHOOSE i \in DOMAIN pop : Rank(scores, i) = k]]

\* max(range(len(population))) with the key left out
LastIndex(scores) == Len(scores)

\* max(range(len(population)), key=...): the first index of the maximum
FirstMax(scores) ==
    CHOOSE i \in DOMAIN scores :
        /\ \A j \in DOMAIN scores : scores[j] <= scores[i]
        /\ \A j \in DOMAIN scores : j < i => scores[j] < scores[i]

\* s[:n]
Prefix(s, n) == SubSeq(s, 1, Min(n, Len(s)))

Scores(h, pop) ==
    [i \in DOMAIN pop |-> calculate_fitness(Load(h, pop[i]))] \o <<>>

Cells(h, pop) == [i \in DOMAIN pop |-> Load(h, pop[i])] \o <<>>

NoGrid == [y \in Rows |-> 0]

InitWith(size) ==
    /\ pc = "init"
    /\ rng \in 1 .. NumSeeds
    /\ POPULATION_SIZE = size
    /\ heap = <<>>
    /\ population = <<>>
    /\ generation = 0
    /\ fitness_scores = <<>>
    /\ sorted_pop = <<>>
    /\ new_population = <<>>
    /\ parent1 = NoGrid
    /\ parent2 = NoGrid
    /\ child = NoGrid
    /\ final_fitness_scores = <<>>
    /\ best_index = 0
    /\ sorted_cells = <<>>
    /\ new_cells = <<>>

Init == InitWith(MaxPopulation)

\* The configuration constants are edited in the source; the code validates none of them.
InitAnyConfig == \E size \in PopulationSizes : InitWith(size)

\* for generation in range(GENERATIONS): the next step after n generations
LoopHead(n) == IF n < GENERATIONS THEN "select" ELSE "final"

\* One pass of the loop of lines 188-194.
InitIndividual ==
    /\ pc = "init"
    /\ Len(population) < POPULATION_SIZE
    /\ \E raw \in {place_river(enforce_constraints(generate_random_map(rng)))} :
          /\ RocksTerminate(raw, rng) = TRUE
          /\ \E a \in {Alloc(heap, place_rocks(raw, rng))} :
                 /\ heap' = a.heap
                 /\ population' = Append(population, a.grid)
    /\ rng' = Advance(rng)
    /\ pc' = IF Len(population) + 1 < POPULATION_SIZE THEN "init" ELSE LoopHead(0)
    /\ UNCHANGED <<POPULATION_SIZE, generation, fitness_scores, sorted_pop,
                   new_population, parent1, parent2, child,
                   final_fitness_scores, best_index, sorted_cells, new_cells>>

\* Lines 197-209: evaluate, sort, take the elites.
Select ==
    /\ pc = "select"
    /\ \E scores \in {Scores(heap, population)} :
         \E sorted \in {SortedByScore(scores, population) \o <<>>} :
           /\ fitness_scores' = scores
           /\ sorted_pop' = sorted
           /\ new_population' = Prefix(sorted, NumElites)
           /\ sorted_cells' = Cells(heap, sorted)
           /\ new_cells' = Cells(heap, Prefix(sorted, NumElites))
    /\ pc' = "reproduce"
    /\ UNCHANGED <<rng, POPULATION_SIZE, heap, population, generation,
                   parent1, parent2, child, final_fitness_scores, best_index>>

\* random.choice(sorted_pop[:15]), twice
ParentPool == Prefix(sorted_pop, NumParents)
ParentIndex1(s) == 1 + (s % Len(ParentPool))
ParentIndex2(s) == 1 + ((s \div Len(ParentPool)) % Len(ParentPool))

\* Lines 211-214.
Crossover ==
    /\ pc = "reproduce"
    /\ Len(new_population) < POPULATION_SIZE
    /\ \E c \in {crossover(heap, ParentPool[ParentIndex1(rng)],
                                  ParentPool[ParentIndex2(rng)])} :
          /\ heap' = c.heap
          /\ child' = c.grid
    /\ parent1' = ParentPool[ParentIndex1(rng)]
    /\ parent2' = ParentPool[ParentIndex2(rng)]
    /\ rng' = Advance(rng)
    /\ pc' = "mutate"
    /\ UNCHANGED <<POPULATION_SIZE, population, generation, fitness_scores,
                   sorted_pop, new_population, final_fitness_scores, best_index,
                   sorted_cells, new_cells>>

\* Lines 215-216: mutate writes the rows of child in place.
Mutate ==
    /\ pc = "mutate"
    /\ \E b \in {BeforeRocks(Load(heap, child), rng)} :
          /\ RocksTerminate(b, rng) = TRUE
          /\ \E h \in {Store(heap, child, place_rocks(b, rng))} :
                 /\ heap' = h
                 /\ new_cells' = Append(new_cells, Load(h, child))
    /\ new_population' = Append(new_population, child)
    /\ rng' = Advance(rng)
    /\ pc' = "reproduce"
    /\ UNCHANGED <<POPULATION_SIZE, population, generation, fitness_scores,
                   sorted_pop, parent1, parent2, child,
                   final_fitness_scores, best_index, sorted_cells>>

\* Line 218, once the while loop of line 211 ends.
NextGeneration ==
    /\ pc = "reproduce"
    /\ Len(new_population) >= POPULATION_SIZE
    /\ population' = new_population
    /\ generation' = generation + 1
    /\ pc' = LoopHead(generation + 1)
    /\ UNCHANGED <<rng, POPULATION_SIZE, heap, fitness_scores, sorted_pop,
                   new_population, parent1, parent2, child,
                   final_fitness_scores, best_index, sorted_cells, new_cells>>

\* Lines 220-222.
Final ==
    /\ pc = "final"
    /\ \E scores \in {Scores(heap, population)} :
          /\ final_fitness_scores' = scores
          /\ best_index' = FirstMax(scores)
    /\ pc' = "done"
    /\ UNCHANGED <<rng, POPULATION_SIZE, heap, population, generation,
                   fitness_scores, sorted_pop, new_population, parent1, parent2,
                   child, sorted_cells, new_cells>>

Next ==
    \/ InitIndividual
    \/ Select
    \/ Crossover
    \/ Mutate
    \/ NextGeneration
    \/ Final

Spec == Init /\ [][Next]_vars

SpecAnyConfig == InitAnyConfig /\ [][Next]_vars

----------------------------------------------------------------------------
(* The claims *)

\* The tile maps of the members of the current and of the next population.
Members ==
    {Load(heap, population[i]) : i \in DOMAIN population}
        \cup {Load(heap, new_population[i]) : i \in DOMAIN new_population}

InBand(y, x) ==
    \E offset \in {-1, 0, 1} : y = get_river_row(x) + offset

InCircle(y, x) == (x - 15) * (x - 15) + (y - 15) * (y - 15) <= 8 * 8

RowsOf(g) == {g[y] : y \in Rows}

\* v is the k-th largest of scores, counted with multiplicity.
IsKthLargest(scores, v, k) ==
    /\ Cardinality({j \in DOMAIN scores : scores[j] > v}) < k
    /\ k <= Cardinality({j \in DOMAIN scores : scores[j] >= v})

Elites == 1 .. Min(NumElites, Len(sorted_pop))

\* The children appended to new_population so far.
Children == {i \in DOMAIN new_population : i > NumElites}

\* C1, as stated: every border cell of every member of the population holds
\* MOUNTAIN.
C1_BorderAllMountain ==
    \A m \in Members : \A y \in Rows, x \in Cols :
        IsEdge(y, x) => m[y][x] = MOUNTAIN

\* C1, amended: every border cell of every member of the population holds
\* MOUNTAIN, except the cells of columns 0 and MAP_WIDTH-1 in the three rows
\* around get_river_row(x), which hold RIVER.
C1_BorderMountainOrRiverMouth ==
    \A m \in Members : \A y \in Rows, x \in Cols :
        IsEdge(y, x) =>
            m[y][x] = (IF (x = 0 \/ x = MAP_WIDTH - 1) /\ InBand(y, x)
                       THEN RIVER ELSE MOUNTAIN)

\* A generation of children, each made by mutate, is in the population.
C1_Witness ==
    /\ pc = "final"
    /\ Len(population) > NumElites
    /\ \A m \in Members : m[15][0] = RIVER /\ m[0][15] = MOUNTAIN

\* C2, as stated: every cell of the central circle of every member of the
\* population holds PLAINS.
C2_CircleAllPlains ==
    \A m \in Members : \A y \in Rows, x \in Cols :
        InCircle(y, x) => m[y][x] = PLAINS

\* C2, amended: a cell of the central circle holds RIVER when it lies in the
\* three rows around get_river_row(x), and PLAINS or ROCK otherwise.
C2_CirclePlainsRockOrRiver ==
    \A m \in Members : \A y \in Rows, x \in Cols :
        InCircle(y, x) =>
            IF InBand(y, x) THEN m[y][x] = RIVER ELSE m[y][x] \in {PLAINS, ROCK}

\* A child holds a ROCK cell, a RIVER cell and a PLAINS cell in the circle.
C2_Witness ==
    /\ pc = "reproduce"
    /\ \E i \in Children :
          /\ \E y \in Rows, x \in Cols : InCircle(y, x) /\ new_cells[i][y][x] = ROCK
          /\ \E y \in Rows, x \in Cols : InCircle(y, x) /\ new_cells[i][y][x] = PLAINS
          /\ new_cells[i][15][15] = RIVER

\* C3: every member of the population (initial individual, child, carried
\* elite) has in every column a RIVER cell among the three rows around
\* get_river_row(x), so its river-presence fitness term is 50 per column.
C3_RiverInEveryColumn ==
    \A m \in Members :
        /\ \A x \in Cols :
              \E y \in Rows : InBand(y, x) /\ m[y][x] = RIVER
        /\ RiverTerm(m) = 50 * MAP_WIDTH

\* The second generation is about to be evaluated: elites and children.
C3_Witness ==
    /\ pc = "select"
    /\ generation >= 1
    /\ Len(population) > NumElites

\* C4, as stated: a cell of a member of the population holds RIVER only in
\* the three rows around get_river_row(x).
C4_RiverOnlyInBand ==
    \A m \in Members : \A y \in Rows, x \in Cols :
        m[y][x] = RIVER => InBand(y, x)

\* C4, amended: a RIVER cell outside the three rows around get_river_row(x)
\* is an interior cell outside the central circle; border cells and cells of
\* the circle hold RIVER only inside the band.
C4_StrayRiverOnlyOutsideCircle ==
    \A m \in Members : \A y \in Rows, x \in Cols :
        m[y][x] = RIVER =>
            InBand(y, x) \/ (~IsEdge(y, x) /\ ~InCircle(y, x))

\* A child holds a RIVER cell outside the band.
C4_Witness ==
    /\ pc = "reproduce"
    /\ \E i \in Children : \E y \in Rows, x \in Cols :
          new_cells[i][y][x] = RIVER /\ ~InBand(y, x)

\* C5: while the children of a generation are produced, the first 5 slots of
\* the new population are the 5 best grids of the current one, their cells
\* as they were at selection; in the next generation the fitness of slot i
\* is the i-th highest score of this one.
C5_Elitism ==
    /\ pc \in {"reproduce", "mutate"} =>
          \A i \in Elites :
              /\ new_population[i] = sorted_pop[i]
              /\ Load(heap, new_population[i]) = sorted_cells[i]
              /\ IsKthLargest(fitness_scores,
                              calculate_fitness(Load(heap, new_population[i])), i)
    /\ (generation >= 1 /\ pc \in {"select", "final", "done"}) =>
          \A i \in Elites :
              IsKthLargest(fitness_scores,
                           calculate_fitness(Load(heap, population[i])), i)

\* All children of a generation are made, one of them from an elite parent.
C5_Witness ==
    /\ pc = "reproduce"
    /\ Len(new_population) = POPULATION_SIZE
    /\ Len(new_population) > NumElites
    /\ \E i \in Elites : parent1 = sorted_pop[i] \/ parent2 = sorted_pop[i]

\* C6: no two members of a population share a row list, a child shares none
\* with a grid of the sorted population or with an earlier child, and the
\* cells of the sorted population and of the earlier children stay as they
\* were while children are produced.
C6_NoAliasing ==
    /\ \A i, j \in DOMAIN population :
          i # j => RowsOf(population[i]) \cap RowsOf(population[j]) = {}
    /\ \A i, j \in DOMAIN new_population :
          i # j => RowsOf(new_population[i]) \cap RowsOf(new_population[j]) = {}
    /\ \A i \in DOMAIN population : Cardinality(RowsOf(population[i])) = MAP_HEIGHT
    /\ pc = "mutate" =>
          /\ \A i \in DOMAIN sorted_pop :
                RowsOf(child) \cap RowsOf(sorted_pop[i]) = {}
          /\ \A i \in DOMAIN new_population :
                RowsOf(child) \cap RowsOf(new_population[i]) = {}
    /\ pc \in {"reproduce", "mutate"} =>
          /\ Cells(heap, sorted_pop) = sorted_cells
          /\ Cells(heap, new_population) = new_cells

\* A second child was mutated in place after the first was appended.
C6_Witness ==
    /\ pc = "reproduce"
    /\ Cardinality(Children) >= 2
    /\ new_cells[NumElites + 1] # new_cells[NumElites + 2]

\* C7: for any two grids A and B of the parent pool, crossover(A, B) has the
\* rows of A above mid and the rows of B from mid on, writes no row of the
\* heap, and crossover(A, A) equals A; the child of the crossover step has
\* the rows of its parents.
C7_Crossover ==
    /\ pc = "reproduce" =>
          \A a, b \in DOMAIN ParentPool :
              \A c \in {crossover(heap, ParentPool[a], ParentPool[b])} :
                  /\ \A y \in Rows :
                        c.heap[c.grid[y]] =
                            (IF y < MAP_HEIGHT \div 2
                             THEN heap[ParentPool[a][y]]
                             ELSE heap[ParentPool[b][y]])
                  /\ \A r \in DOMAIN heap : c.heap[r] = heap[r]
                  /\ a = b => Load(c.heap, c.grid) = Load(heap, ParentPool[a])
    /\ pc = "mutate" =>
          \A y \in Rows :
              heap[child[y]] =
                  (IF y < MAP_HEIGHT \div 2 THEN heap[parent1[y]] ELSE heap[parent2[y]])

\* A child of two different parents whose halves differ from each other's.
C7_Witness ==
    /\ pc = "mutate"
    /\ parent1 # parent2
    /\ Load(heap, child) # Load(heap, parent1)
    /\ Load(heap, child) # Load(heap, parent2)

\* C8: a population size below 6 is rejected before any individual is
\* built.
C8_InvalidConfigurationRejected ==
    POPULATION_SIZE < NumElites + 1 => (pc = "init" /\ population = <<>>)

\* C9: a run ends after exactly GENERATIONS generations, and best_index is
\* the lowest index of a grid of the final population whose fitness no
\* other member exceeds.
C9_BestOfFinalPopulation ==
    /\ generation <= GENERATIONS
    /\ pc \in {"final", "done"} => generation = GENERATIONS
    /\ pc = "done" =>
          /\ best_index \in DOMAIN population
          /\ final_fitness_scores = Scores(heap, population)
          /\ \A j \in DOMAIN population :
                /\ calculate_fitness(Load(heap, population[j]))
                       <= calculate_fitness(Load(heap, population[best_index]))
                /\ j < best_index =>
                       calculate_fitness(Load(heap, population[j]))
                           < calculate_fitness(Load(heap, population[best_index]))

\* A run ended with several grids tied for the maximum.
C9_Witness ==
    /\ pc = "done"
    /\ generation = GENERATIONS
    /\ \E j \in DOMAIN population :
          /\ j > best_index
          /\ final_fitness_scores[j] = final_fitness_scores[best_index]

\* C10: whatever ROCK cells its input holds, the tile map mutate leaves
\* holds at most num_clusters * 5 ROCK cells, each an interior cell within
\* one row and one column of a seed chosen in that call; no child holds more.
C10_RocksRepainted ==
    /\ pc = "mutate" =>
          \A res \in {PlaceRocks(BeforeRocks(Load(heap, child), rng), rng)} :
              /\ res.tiles = mutate(Load(heap, child), rng)
              /\ rock_count(res.tiles) <= num_clusters * 5
              /\ \A y \in Rows, x \in Cols :
                    res.tiles[y][x] = ROCK =>
                        /\ ~IsEdge(y, x)
                        /\ \E k \in DOMAIN res.seeds :
                              /\ Abs(x - res.seeds[k].cx) <= 1
                              /\ Abs(y - res.seeds[k].cy) <= 1
    /\ \A i \in Children : rock_count(new_cells[i]) <= num_clusters * 5

\* A child with rocks was made from parents holding more than 40 rocks.
C10_Witness ==
    /\ pc = "reproduce"
    /\ \E i \in Children : rock_count(new_cells[i]) > 0
    /\ \E i \in DOMAIN sorted_cells :
          /\ sorted_pop[i] = parent1
          /\ rock_count(sorted_cells[i]) > num_clusters * 5

====
